---- MODULE Spec2Model ----
(***************************************************************************)
(* jsonene: declarative JSON schema types (src/jsonene).                   *)
(*                                                                         *)
(* The model covers the Schema metamodel of src/jsonene/fields.py:         *)
(*   - the field map resolved over a class's MRO                           *)
(*     (Field._get_allowed_fields_values),                                 *)
(*   - Schema.to_json_schema (the compiled document),                      *)
(*   - Schema.Instance: construction, item/attribute assignment,           *)
(*     serialize, deserialize, Schema.from_json,                           *)
(*   - BaseInstance.validate, which hands the serialized instance and the  *)
(*     compiled document to the jsonschema validator.                      *)
(*                                                                         *)
(* A class is its own __dict__ (the declarations in order), its MRO and    *)
(* its Meta.  A descriptor is identified by the pair <<class, attribute>>  *)
(* that declares it; the one attribute the code writes on a descriptor     *)
(* after declaration, attr_name, is state.                                 *)
(***************************************************************************)
EXTENDS Integers, Sequences, FiniteSets, TLC

VARIABLES
    prog,       \* the declared classes: dict, desc, meta (fixed after Init)
    attr_name,  \* descriptor <<class, attr>> -> obj.attr_name, NoName while unset
    insts,      \* instance slot -> [cls, attrs]; attrs is vars(self)
    compiled,   \* class -> the document to_json_schema() returned right after declaration
    last        \* the last operation and what it returned or raised

vars == <<prog, attr_name, insts, compiled, last>>

(***************************************************************************)
(* Bounds.                                                                 *)
(***************************************************************************)
MaxKwargs == 2   \* a construct() call or a document carries at most this many keys
MaxDecl == 2     \* declarations per class __dict__ in the field-map specification
MaxTypes == 2    \* item types a list descriptor is declared with
MaxItems == 3    \* elements of a list value

(***************************************************************************)
(* Values.  A JSON value is an integer or a string; string 0 is a          *)
(* well-formed email address, every other string is not.  boxed marks a    *)
(* value wrapped in a SingleValueInstance (what MustInstanceField.from_json *)
(* returns).  The operations are given two values: the integer 0, which is *)
(* also the default of every defaulted field, and an ill-formed email      *)
(* string, which is no integer and violates the email format.              *)
(***************************************************************************)
IntV(n) == [type |-> "integer", v |-> n, boxed |-> FALSE]
StrV(n) == [type |-> "string", v |-> n, boxed |-> FALSE]
None == [type |-> "NoneType", v |-> 0, boxed |-> FALSE]
Box(val) == [val EXCEPT !.boxed = TRUE]

GoodEmail == StrV(0)
BadEmail == StrV(1)
Values == {IntV(0), BadEmail}

NoName == "<None>"

Range(s) == {s[n] : n \in DOMAIN s}
InSeq(e, s) == \E n \in DOMAIN s : s[n] = e

(***************************************************************************)
(* Classes.  C inherits B inherits A (all Schema subclasses); E, where it   *)
(* is declared, is a Schema subclass of its own.                           *)
(***************************************************************************)
Classes == {"A", "B", "C"}
AttrNames == {"a", "b", "c"}

Mro(c) ==
    CASE c = "A" -> <<"A">>
      [] c = "B" -> <<"B", "A">>
      [] c = "C" -> <<"C", "B", "A">>
      [] c = "E" -> <<"E">>

Item(a, f) == [attr |-> a, is_field |-> f]

Desc(kind, required, name, use_default) ==
    [kind |-> kind, required |-> required, name |-> name, use_default |-> use_default]

PlainDesc == Desc("integer", TRUE, NoName, None)

\* Number.__init__ and String.__init__ with their bounds; a bound is None or
\* an integer value (IntV), a pattern None or a string value
NumberDesc(kind, min, max, exclusive_min, exclusive_max, multiple_of) ==
    [kind |-> kind, required |-> TRUE, name |-> NoName, use_default |-> None,
     min |-> min, max |-> max, exclusive_min |-> exclusive_min,
     exclusive_max |-> exclusive_max, multiple_of |-> multiple_of]
StringDesc(min_len, max_len, pattern, blank) ==
    [kind |-> "string", required |-> TRUE, name |-> NoName, use_default |-> None,
     min_len |-> min_len, max_len |-> max_len, pattern |-> pattern, blank |-> blank]
\* an attribute of a descriptor; a bound the descriptor was built without is None
Attr(obj, a) == IF a \in DOMAIN obj THEN obj[a] ELSE None

NoMeta == [own |-> FALSE, additional_properties |-> FALSE, field_dependencies |-> <<>>]
Meta(ap, deps) == [own |-> TRUE, additional_properties |-> ap, field_dependencies |-> deps]

\* the descriptors of a program: one per Field declaration of a class __dict__
Declared(dict) ==
    {d \in Classes \X AttrNames :
        \E n \in DOMAIN dict[d[1]] : dict[d[1]][n] = Item(d[2], TRUE)}

RequiredDependency(source, targets) == [source |-> source, targets |-> targets]

\* Combinators (operators.py).  A combinator descriptor keeps its alternatives
\* in _types; an alternative given as a Schema class is instantiated, and is
\* the descriptor SchemaType(c).
Operators == {"anyOf", "oneOf", "allOf"}
SchemaType(c) == [kind |-> "object", cls |-> c]
OfDesc(operator, types, required, name) ==
    [kind |-> operator, required |-> required, name |-> name, use_default |-> None,
     types |-> types]
IsOf(obj) == obj.kind \in Operators \cup {"not"}

\* List.__init__(*types): required defaults to False; generic is true for a
\* GenericList, whose Meta sets additional_items.  A list value is ListV(seq),
\* a List.Instance is ListInstance(seq).
ListDesc(types, generic, name) ==
    [kind |-> "array", required |-> FALSE, name |-> name, use_default |-> None,
     types |-> types, generic |-> generic]
ListV(seq) == [list |-> seq]
ListInstance(seq) == [cls |-> "List.Instance", _list |-> seq]
\* isinstance(self._types, list): one declared type is kept as the type itself
IsTypeList(obj) == Len(obj.types) # 1

(***************************************************************************)
(* Field._get_all_supers / Field._get_allowed_fields_values: walk the MRO  *)
(* most-derived first, each class's own __dict__ in declaration order,     *)
(* and yield a Field entry unless its name was yielded before.             *)
(***************************************************************************)
SupersBaseFirst(c) == [n \in DOMAIN Mro(c) |-> Mro(c)[Len(Mro(c)) + 1 - n]]

_get_all_supers(c) == Mro(c)

RECURSIVE VisitDict(_, _, _)
VisitDict(sup, items, acc) ==
    IF items = <<>> THEN acc
    ELSE LET it == Head(items) IN
         IF it.is_field /\ ~InSeq(it.attr, acc.visited)
         THEN VisitDict(sup, Tail(items),
                        [visited |-> Append(acc.visited, it.attr),
                         out |-> Append(acc.out, <<it.attr, <<sup, it.attr>>>>)])
         ELSE VisitDict(sup, Tail(items), acc)

RECURSIVE VisitSupers(_, _)
VisitSupers(supers, acc) ==
    IF supers = <<>> THEN acc
    ELSE VisitSupers(Tail(supers), VisitDict(Head(supers), prog.dict[Head(supers)], acc))

_get_allowed_fields_values(c) ==
    VisitSupers(_get_all_supers(c), [visited |-> <<>>, out |-> <<>>]).out

\* the descriptor object of a yielded entry
FieldObj(entry) == prog.desc[entry[2]]

(***************************************************************************)
(* Meta lookup.  getattr(self.__class__, "Meta") finds the Meta of the     *)
(* first class of the MRO that has one of its own, and Schema.Meta at the  *)
(* end of every MRO.                                                       *)
(***************************************************************************)
SchemaMeta == Meta(FALSE, <<>>)

RECURSIVE FirstMeta(_)
FirstMeta(supers) ==
    IF supers = <<>> THEN SchemaMeta
    ELSE IF prog.meta[Head(supers)].own THEN prog.meta[Head(supers)]
    ELSE FirstMeta(Tail(supers))

_get_meta(c) == FirstMeta(Mro(c))

additional_properties(c) == _get_meta(c).additional_properties
field_dependencies(c) == _get_meta(c).field_dependencies

(***************************************************************************)
(* Documents.  A Python dict is a function on its keys; d[k] = v is Put.   *)
(***************************************************************************)
Put(m, k, v) == [x \in DOMAIN m \cup {k} |-> IF x = k THEN v ELSE m[x]]

\* the keyword k with value v when cond holds, no keyword otherwise
Keyword(cond, k, v) == IF cond THEN k :> v ELSE <<>>

\* A field's document; "-" is a keyword the document does not have.
\* Number.to_json_schema: {"type": "integer"} for Integer(), and the
\* keywords of the bounds that are set
Number_to_json_schema(obj) ==
    Keyword(Attr(obj, "min") # None, "minimum", Attr(obj, "min"))
    @@ Keyword(Attr(obj, "min") = None /\ Attr(obj, "exclusive_min") # None,
               "exclusiveMinimum", Attr(obj, "exclusive_min"))
    @@ Keyword(Attr(obj, "max") # None, "maximun", Attr(obj, "max"))
    @@ Keyword(Attr(obj, "max") = None /\ Attr(obj, "exclusive_max") # None,
               "exclusiveMaximun", Attr(obj, "exclusive_max"))
    @@ Keyword(Attr(obj, "multiple_of") # None, "multipleOf", Attr(obj, "multiple_of"))
    @@ [type |-> obj.kind, format |-> "-"]

\* the assertions of Number.to_json_schema: the exception it raises, "-" if none
Number_raises(obj) ==
    IF \/ Attr(obj, "min") # None /\ Attr(obj, "min").v < 0
       \/ Attr(obj, "min") = None /\ Attr(obj, "exclusive_min") # None
             /\ Attr(obj, "exclusive_min").v < 0
       \/ Attr(obj, "max") # None /\ Attr(obj, "max").v < 0
       \/ Attr(obj, "max") = None /\ Attr(obj, "exclusive_max") # None
             /\ Attr(obj, "exclusive_max").v < 0
    THEN "AssertionError" ELSE "-"

\* String.to_json_schema
String_to_json_schema(obj) ==
    Keyword(obj.min_len # None, "minLength", obj.min_len)
    @@ Keyword(obj.min_len = None /\ obj.blank, "minLength", IntV(0))
    @@ Keyword(obj.max_len # None, "maxLength", obj.max_len)
    @@ [type |-> obj.kind, format |-> "-"]

\* the assertions of String.to_json_schema, and the undefined name pattern
\* it reads when self.pattern is set
String_raises(obj) ==
    IF \/ obj.min_len # None /\ obj.min_len.v < 0
       \/ obj.max_len # None /\ obj.max_len.v < 0
    THEN "AssertionError"
    ELSE IF obj.pattern # None THEN "NameError" ELSE "-"

\* MustInstanceField.to_json_schema for Format("email"): {"format": "email"}
MustInstanceField_to_json_schema(obj) == [type |-> "-", format |-> "email"]

RECURSIVE FieldToJsonSchema(_)
RECURSIVE to_json_schema(_)

\* Of.to_json_schema: {operator: [branch documents]}
Of_to_json_schema(obj) ==
    [operator |-> obj.kind,
     schema |-> [n \in DOMAIN obj.types |-> FieldToJsonSchema(obj.types[n])]]

\* List.to_json_schema.  items.form says whether the key is absent ("-"), an
\* array of documents or a single document; additionalItems is "true" or
\* absent; max/minItems and contains are None for List(*types).
List_to_json_schema(obj) ==
    [type |-> "array",
     items |-> [form |-> IF IsTypeList(obj)
                         THEN IF obj.types # <<>> THEN "array" ELSE "-"
                         ELSE "single",
                docs |-> [n \in DOMAIN obj.types |-> FieldToJsonSchema(obj.types[n])]],
     uniqueItems |-> FALSE,
     additionalItems |-> IF obj.generic THEN "true" ELSE "-"]

\* MustInstanceField.to_json_schema of a Const or an Enum: {"const": value},
\* {"enum": values}
Const_to_json_schema(obj) == (obj.kind :> obj._value) @@ [type |-> "-", format |-> "-"]

\* field_obj.to_json_schema()
FieldToJsonSchema(obj) ==
    CASE obj.kind = "format" -> MustInstanceField_to_json_schema(obj)
      [] obj.kind \in {"const", "enum"} -> Const_to_json_schema(obj)
      [] obj.kind = "array" -> List_to_json_schema(obj)
      [] obj.kind = "string" -> String_to_json_schema(obj)
      [] obj.kind = "object" -> to_json_schema(obj.cls)
      [] obj.kind \in Operators -> Of_to_json_schema(obj)
      [] OTHER -> Number_to_json_schema(obj)

\* fname = field_obj.name if field_obj.name is not None else attr_name
FNameByAttrName(entry) ==
    IF attr_name[entry[2]] # NoName THEN attr_name[entry[2]]
    ELSE IF FieldObj(entry).name # NoName THEN FieldObj(entry).name ELSE entry[1]

FNameIsAttribute(entry) == entry[1]

FName(entry) == IF FieldObj(entry).name # NoName THEN FieldObj(entry).name ELSE entry[1]

RECURSIVE CompileFields(_, _)
CompileFields(entries, acc) ==
    IF entries = <<>> THEN acc
    ELSE LET e == Head(entries)
             fname == FName(e)
         IN  CompileFields(Tail(entries),
                [properties |-> Put(acc.properties, fname, FieldToJsonSchema(FieldObj(e))),
                 required |-> IF FieldObj(e).required
                              THEN Append(acc.required, fname) ELSE acc.required])

RECURSIVE CompileDependencies(_, _)
CompileDependencies(deps, acc) ==
    IF deps = <<>> THEN acc
    ELSE CompileDependencies(Tail(deps), Put(acc, Head(deps).source, Head(deps).targets))

\* Schema.to_json_schema.  The "dependencies" key is present exactly when the
\* function below has a key; max/minProperties are None for cls().
to_json_schema(c) ==
    LET fs == CompileFields(_get_allowed_fields_values(c),
                            [properties |-> <<>>, required |-> <<>>])
    IN  [type |-> "object",
         properties |-> fs.properties,
         required |-> fs.required,
         dependencies |-> CompileDependencies(field_dependencies(c), <<>>),
         additionalProperties |-> additional_properties(c)]

(***************************************************************************)
(* The validation delegate: jsonschema (draft 7) on an object document.    *)
(* An error is [kind, key, source].  format_checker says whether the       *)
(* validator was built with draft7_format_checker.                         *)
(***************************************************************************)
Error(kind, key, source) == [kind |-> kind, key |-> key, source |-> source]

\* a value is a primitive (possibly wrapped), a dict, or a Schema.Instance
\* [cls, attrs], which is no JSON value
IsPrimitive(val) == "boxed" \in DOMAIN val
IsJsonArray(val) == "list" \in DOMAIN val
IsJsonObject(val) == ~IsPrimitive(val) /\ "cls" \notin DOMAIN val /\ ~IsJsonArray(val)
IsJsonInteger(val) == IsPrimitive(val) /\ val.type = "integer" /\ ~val.boxed
IsJsonString(val) == IsPrimitive(val) /\ val.type = "string" /\ ~val.boxed

RECURSIVE PropertyErrors(_, _, _, _)
RECURSIVE iter_errors(_, _, _)

\* the keywords anyOf, oneOf, allOf
OfErrors(key, val, sub, format_checker) ==
    LET errs(n) == PropertyErrors(key, val, sub.schema[n], format_checker)
        valid == {n \in DOMAIN sub.schema : errs(n) = {}}
    IN  CASE sub.operator = "anyOf" ->
                IF valid = {} THEN {Error("anyOf", key, "-")} ELSE {}
          [] sub.operator = "oneOf" ->
                IF Cardinality(valid) = 1 THEN {} ELSE {Error("oneOf", key, "-")}
          [] sub.operator = "allOf" -> UNION {errs(n) : n \in DOMAIN sub.schema}

\* the keywords type and format
PrimitiveErrors(key, val, sub, format_checker) ==
    {Error("type", key, "-") : x \in {1} \cap
        (IF sub.type = "integer" /\ ~IsJsonInteger(val) THEN {1} ELSE {})}
    \cup
    {Error("format", key, "-") : x \in {1} \cap
        (IF format_checker /\ sub.format = "email" /\ IsJsonString(val) /\ val # GoodEmail
         THEN {1} ELSE {})}

Min(m, n) == IF m < n THEN m ELSE n

\* the keywords type "array", items and additionalItems (uniqueItems is false)
ArrayErrors(key, val, sub, format_checker) ==
    IF ~IsJsonArray(val) THEN {Error("type", key, "-")}
    ELSE LET n == Len(val.list)
             k == Len(sub.items.docs)
         IN  CASE sub.items.form = "single" ->
                    UNION {PropertyErrors(key, val.list[m], sub.items.docs[1], format_checker) :
                                m \in 1..n}
               [] sub.items.form = "array" ->
                    UNION {PropertyErrors(key, val.list[m], sub.items.docs[m], format_checker) :
                                m \in 1..Min(n, k)}
                    \cup {Error("additionalItems", key, "-") : x \in {1} \cap
                            (IF sub.additionalItems = "false" /\ n > k THEN {1} ELSE {})}
               [] OTHER -> {}

\* the errors of one value against one document
PropertyErrors(key, val, sub, format_checker) ==
    IF "operator" \in DOMAIN sub THEN OfErrors(key, val, sub, format_checker)
    ELSE IF sub.type = "array" THEN ArrayErrors(key, val, sub, format_checker)
    ELSE IF sub.type = "object"
    THEN IF IsJsonObject(val) THEN iter_errors(val, sub, format_checker)
         ELSE {Error("type", key, "-")}
    ELSE PrimitiveErrors(key, val, sub, format_checker)

iter_errors(data, doc, format_checker) ==
    UNION {PropertyErrors(k, data[k], doc.properties[k], format_checker) :
                k \in DOMAIN data \cap DOMAIN doc.properties}
    \cup {Error("required", r, "-") : r \in Range(doc.required) \ DOMAIN data}
    \cup {Error("additionalProperties", "-", "-") : x \in {1} \cap
            (IF ~doc.additionalProperties /\ DOMAIN data \ DOMAIN doc.properties # {}
             THEN {1} ELSE {})}
    \cup UNION {{Error("dependency", t, s) : t \in Range(doc.dependencies[s]) \ DOMAIN data} :
                s \in DOMAIN doc.dependencies \cap DOMAIN data}

\* ValidatorMixin.validate: jsonschema.validate, with the format checker only
\* when check_formats is true.  TRUE when it raises ValidationError.
ValidateRaises(data, c, check_formats) ==
    iter_errors(data, to_json_schema(c), check_formats) # {}

\* ValidatorMixin.validation_errors: the format checker is used when
\* check_formats is false.
validation_errors(data, c, check_formats) ==
    iter_errors(data, to_json_schema(c), ~check_formats)

(***************************************************************************)
(* The last operation.  Every field is present for every operation; the    *)
(* ones an operation does not use keep their empty value.                  *)
(***************************************************************************)
NoInst == "-"
NoClass == "-"
Empty == <<>>

NoDoc == [type |-> "-"]

Op(op, i, c, mode, outcome, kw, errs, fmap) ==
    [op |-> op, i |-> i, c |-> c, mode |-> mode, outcome |-> outcome,
     kw |-> kw, errs |-> errs, fmap |-> fmap, doc |-> NoDoc, check_formats |-> FALSE,
     ret |-> None]

NoOp == Op("none", NoInst, NoClass, "-", "-", Empty, {}, <<>>)

(***************************************************************************)
(* Schema.Instance.  attrs is vars(self) without the bookkeeping           *)
(* attributes (_schema, _field_map), which serialize() skips.              *)
(***************************************************************************)
Instances == {"i1"}
Keys == {"a", "b", "x-a", "k"}
Dicts == {m \in UNION {[S -> Values] : S \in SUBSET Keys} : Cardinality(DOMAIN m) <= MaxKwargs}

NoInstance == [cls |-> NoClass, attrs |-> Empty]
Exists(i) == insts[i].cls # NoClass

\* Schema.Instance._set_by_field_map, one pass of its loop per entry of the
\* field map; st is [attrs, an]: vars(self) and the descriptors' attr_name.
RECURSIVE _set_by_field_map(_, _, _)
_set_by_field_map(entries, st, kwargs) ==
    IF entries = <<>> THEN st
    ELSE LET f == Head(entries)[1]
             id == Head(entries)[2]
             obj == prog.desc[id]
             popped == f \in DOMAIN kwargs
             is_missing == ~popped /\ obj.use_default = None
             v == IF popped THEN kwargs[f] ELSE obj.use_default
         IN  _set_by_field_map(Tail(entries),
                IF is_missing THEN st
                ELSE IF obj.name # NoName
                THEN [attrs |-> Put(st.attrs, obj.name, v),
                      an |-> [st.an EXCEPT ![id] = f]]
                ELSE [attrs |-> Put(st.attrs, f, v), an |-> st.an],
                kwargs)

RECURSIVE SetAll(_, _)
SetAll(attrs, kwargs) ==
    IF DOMAIN kwargs = {} THEN attrs
    ELSE LET k == CHOOSE k \in DOMAIN kwargs : TRUE IN
         SetAll(Put(attrs, k, kwargs[k]), [x \in DOMAIN kwargs \ {k} |-> kwargs[x]])

\* Schema.Instance._validate_and_set_attrs
_validate_and_set_attrs(c, st, kwargs) ==
    IF ~additional_properties(c)
    THEN _set_by_field_map(_get_allowed_fields_values(c), st, kwargs)
    ELSE [attrs |-> SetAll(st.attrs, kwargs), an |-> st.an]

\* Schema.Instance.__init__
NewInstance(c, an, kwargs) == _validate_and_set_attrs(c, [attrs |-> Empty, an |-> an], kwargs)

\* isinstance(v, InstanceMixin): the instance classes derive from BaseInstance,
\* which does not derive from InstanceMixin, so the test is false for every value.
IsInstanceMixin(val) == FALSE

\* SingleValueInstance.serialize
Unbox(val) == [val EXCEPT !.boxed = FALSE]

\* Schema.Instance.serialize
serialize(attrs) ==
    [k \in DOMAIN attrs |-> IF IsInstanceMixin(attrs[k]) THEN Unbox(attrs[k]) ELSE attrs[k]]

\* PrimitiveField._from_json_instance: validates v against the field's own
\* document and returns what SingleValueInstance.deserialize returns, v.
_from_json_instance(obj, v) ==
    [raised |-> PropertyErrors("-", v, FieldToJsonSchema(obj), FALSE) # {}, value |-> v]

\* MustInstanceField.from_json: wraps v in an Instance.
MustInstanceField_from_json(obj, v) == [raised |-> FALSE, value |-> Box(v)]

RECURSIVE FieldFromJson(_, _, _)
RECURSIVE from_json(_, _, _)

\* except ValidationError (operators.py 3: the name comes from
\* jsonene.exceptions): the clause catches what t.validate raises
ValidationErrorIsCaught == TRUE

\* Of.from_json, the loop over self._types from index n: the index of the
\* first alternative whose validate(data) does not raise, 0 when there is
\* none, -1 when an exception leaves the loop
RECURSIVE FirstValid(_, _, _)
FirstValid(types, data, n) ==
    IF n > Len(types) THEN 0
    ELSE IF PropertyErrors("-", data, FieldToJsonSchema(types[n]), FALSE) = {} THEN n
    ELSE IF ValidationErrorIsCaught THEN FirstValid(types, data, n + 1)
    ELSE -1

Of_from_json_ExactlyOne(obj, data, an) ==
    LET n == FirstValid(obj.types, data, 1)
        valid == {m \in DOMAIN obj.types :
                    PropertyErrors("-", data, FieldToJsonSchema(obj.types[m]), FALSE) = {}}
    IN  IF n = -1 THEN [raised |-> TRUE, value |-> data, an |-> an]
        ELSE IF n = 0 \/ (obj.kind = "oneOf" /\ Cardinality(valid) > 1)
        THEN [raised |-> FALSE, value |-> data, an |-> an]
        ELSE FieldFromJson(obj.types[n], data, an)

Of_from_json_Raising(obj, data, an) ==
    LET n == FirstValid(obj.types, data, 1) IN
    IF n <= 0 THEN [raised |-> TRUE, value |-> data, an |-> an]
    ELSE FieldFromJson(obj.types[n], data, an)

\* Of.from_json; an is the descriptors' attr_name, which a Schema alternative
\* writes when it builds its instance
Of_from_json(obj, data, an) ==
    LET n == FirstValid(obj.types, data, 1) IN
    IF n = -1 THEN [raised |-> TRUE, value |-> data, an |-> an]
    ELSE IF n = 0 THEN [raised |-> FALSE, value |-> data, an |-> an]
    ELSE FieldFromJson(obj.types[n], data, an)

\* List.Instance.deserialize: zip(data, _types) for a list of types, every
\* element against the one type otherwise; acc is [raised, list, an]
RECURSIVE List_deserialize(_, _, _, _)
List_deserialize(obj, data, m, acc) ==
    IF acc.raised \/ m > (IF IsTypeList(obj) THEN Min(Len(data), Len(obj.types)) ELSE Len(data))
    THEN acc
    ELSE LET r == FieldFromJson(obj.types[IF IsTypeList(obj) THEN m ELSE 1], data[m], acc.an)
         IN  List_deserialize(obj, data, m + 1,
                [raised |-> r.raised, list |-> Append(acc.list, r.value), an |-> r.an])

\* List._from_json_instance: validate, self.instance([]), deserialize
List_from_json(obj, data, an) ==
    IF PropertyErrors("-", data, FieldToJsonSchema(obj), FALSE) # {}
    THEN [raised |-> TRUE, value |-> data, an |-> an]
    ELSE LET r == List_deserialize(obj, data.list, 1,
                                   [raised |-> FALSE, list |-> <<>>, an |-> an])
         IN  [raised |-> r.raised, value |-> ListInstance(r.list), an |-> r.an]

\* obj.from_json(v): [raised, value, an]
FieldFromJson(obj, v, an) ==
    CASE obj.kind = "array" -> List_from_json(obj, v, an)
      [] obj.kind = "format" ->
            [raised |-> FALSE, value |-> MustInstanceField_from_json(obj, v).value, an |-> an]
      [] obj.kind = "object" ->
            LET r == from_json(obj.cls, v, an) IN
            [raised |-> r.raised, value |-> [cls |-> obj.cls, attrs |-> r.attrs], an |-> r.an]
      [] obj.kind \in Operators -> Of_from_json(obj, v, an)
      [] OTHER ->
            [raised |-> _from_json_instance(obj, v).raised, value |-> v, an |-> an]

\* Schema.Instance.deserialize, one pass of its loop per entry; st is
\* [attrs, raised, an]
RECURSIVE deserialize(_, _, _)
deserialize(entries, st, data) ==
    IF entries = <<>> \/ st.raised THEN st
    ELSE LET fname == Head(entries)[1]
             obj == prog.desc[Head(entries)[2]]
             key == IF obj.name # NoName THEN obj.name ELSE fname
             is_missing == key \notin DOMAIN data /\ obj.use_default = None
             v == IF key \in DOMAIN data THEN data[key] ELSE obj.use_default
             r == FieldFromJson(obj, v, st.an)
         IN  deserialize(Tail(entries),
                IF is_missing THEN st
                ELSE IF r.raised THEN [st EXCEPT !.raised = TRUE]
                ELSE [st EXCEPT !.attrs = Put(st.attrs, key, r.value), !.an = r.an],
                data)

\* Schema.from_json: validate the document, build cls.instance(), deserialize.
\* [raised, errs, attrs, an]; errs are the violations behind a ValidationError
\* of the first step, an the descriptors' attr_name before and after.
from_json(c, data, an) ==
    LET errs == iter_errors(data, to_json_schema(c), FALSE) IN
    IF errs # {}
    THEN [raised |-> TRUE, errs |-> errs, attrs |-> Empty, an |-> an]
    ELSE LET inst == NewInstance(c, an, Empty)
             r == deserialize(_get_allowed_fields_values(c),
                              [attrs |-> inst.attrs, raised |-> FALSE, an |-> inst.an], data)
         IN  [raised |-> r.raised, errs |-> {}, attrs |-> r.attrs, an |-> r.an]

\* instance.name: __getattribute__ finds an attribute of vars(self);
\* otherwise Schema.Instance.__getattr__ returns getattr(self, obj.name) for
\* the first descriptor of the field map whose attr_name is name, and raises
\* AttributeError when there is none.
AttributeError == [type |-> "AttributeError", v |-> 0, boxed |-> FALSE]

RECURSIVE __getattr__(_, _, _)
__getattr__(entries, attrs, name) ==
    IF entries = <<>> THEN AttributeError
    ELSE IF attr_name[Head(entries)[2]] = name
    THEN IF prog.desc[Head(entries)[2]].name \in DOMAIN attrs
         THEN attrs[prog.desc[Head(entries)[2]].name]
         ELSE AttributeError
    ELSE __getattr__(Tail(entries), attrs, name)

GetAttr(i, name) ==
    IF name \in DOMAIN insts[i].attrs THEN insts[i].attrs[name]
    ELSE __getattr__(_get_allowed_fields_values(insts[i].cls), insts[i].attrs, name)

Outcome(raised) == IF raised THEN "ValidationError" ELSE "returned"

(***************************************************************************)
(* The operations.                                                         *)
(***************************************************************************)
\* T.instance(**kwargs) / T()(**kwargs): Schema.__call__
Construct(i, c, kwargs) ==
    \E r \in {NewInstance(c, attr_name, kwargs)} :
    /\ insts' = [insts EXCEPT ![i] = [cls |-> c, attrs |-> r.attrs]]
    /\ attr_name' = r.an
    /\ last' = Op("construct", i, c, "-", "returned", kwargs, {}, <<>>)
    /\ UNCHANGED <<prog, compiled>>

\* instance.key = value: plain attribute assignment; last.mode is the key
SetAttr(i, key, value) ==
    /\ Exists(i)
    /\ insts' = [insts EXCEPT ![i].attrs = Put(@, key, value)]
    /\ last' = Op("setattr", i, insts[i].cls, key, "returned", Empty, {}, <<>>)
    /\ UNCHANGED <<prog, attr_name, compiled>>

\* instance[name] = value: Schema.Instance.__setitem__; last.mode is the name
SetItem(i, name, value) ==
    /\ Exists(i)
    /\ \E r \in {_validate_and_set_attrs(insts[i].cls,
                    [attrs |-> insts[i].attrs, an |-> attr_name], Put(Empty, name, value))} :
           /\ insts' = [insts EXCEPT ![i].attrs = r.attrs]
           /\ attr_name' = r.an
    /\ last' = Op("setitem", i, insts[i].cls, name, "returned", Empty, {}, <<>>)
    /\ UNCHANGED <<prog, compiled>>

\* instance.serialize()
Serialize(i) ==
    /\ Exists(i)
    /\ last' = Op("serialize", i, insts[i].cls, "-", "returned", serialize(insts[i].attrs), {}, <<>>)
    /\ UNCHANGED <<prog, attr_name, insts, compiled>>

\* BaseInstance.validate(raise_exception): raise mode returns what
\* jsonschema.validate returns, None (outcome "None"), or raises; collect mode
\* returns the list of errors.
Validate(i, raise_exception) ==
    /\ Exists(i)
    /\ LET data == serialize(insts[i].attrs)
           c == insts[i].cls
       IN  last' = IF raise_exception
                   THEN Op("validate", i, c, "raise",
                           IF ValidateRaises(data, c, FALSE) THEN "ValidationError"
                           ELSE "None", data, {}, <<>>)
                   ELSE Op("validate", i, c, "collect", "returned", data,
                           validation_errors(data, c, FALSE), <<>>)
    /\ UNCHANGED <<prog, attr_name, insts, compiled>>

\* i = T.from_json(data).  When it raises, last keeps the violations and not
\* the document.
FromJson(i, c, data) ==
    \E r \in {from_json(c, data, attr_name)} :
    /\ insts' = IF r.raised THEN insts
                ELSE [insts EXCEPT ![i] = [cls |-> c, attrs |-> r.attrs]]
    /\ attr_name' = r.an
    /\ last' = Op("from_json", i, c, "-", Outcome(r.raised),
                  IF r.raised THEN Empty ELSE data, r.errs, <<>>)
    /\ UNCHANGED <<prog, compiled>>

\* i = T.from_json(i.serialize()) for the class T of i.  last keeps the
\* serialized source, the operation that produced the source (mode) and the
\* validation errors of the source.
RoundTrip(i) ==
    /\ Exists(i)
    /\ \E data \in {serialize(insts[i].attrs)}, c \in {insts[i].cls} :
       \E r \in {from_json(c, data, attr_name)} :
           /\ insts' = IF r.raised THEN insts
                       ELSE [insts EXCEPT ![i] = [cls |-> c, attrs |-> r.attrs]]
           /\ attr_name' = r.an
           /\ last' = Op("round_trip", i, c, last.op, Outcome(r.raised), data,
                         validation_errors(data, c, FALSE), <<>>)
    /\ UNCHANGED <<prog, compiled>>

\* T().to_json_schema(), called again at any later time
Compile(c) ==
    /\ last' = [Op("to_json_schema", NoInst, c, "-", "returned", Empty, {}, <<>>)
                    EXCEPT !.doc = to_json_schema(c)]
    /\ UNCHANGED <<prog, attr_name, insts, compiled>>

(***************************************************************************)
(* The programs of the main specification: A declares b and a, B inherits  *)
(* A and redeclares a, C inherits B and declares nothing; the instances    *)
(* are instances of B.  The descriptors of a and A's Meta (which B         *)
(* inherits) are drawn from the choices below; the document keys of a      *)
(* class are pairwise distinct.                                            *)
(***************************************************************************)
InstClasses == {"B"}

ADescs == <<Desc("integer", TRUE, NoName, None),
            Desc("integer", FALSE, "x-a", IntV(0)),
            Desc("format", TRUE, "x-a", None),
            Desc("format", FALSE, NoName, None)>>

BDesc == Desc("integer", FALSE, NoName, IntV(0))

MetaChoices == {Meta(FALSE, <<>>),
                Meta(FALSE, <<RequiredDependency("a", <<"b">>)>>),
                Meta(TRUE, <<>>)}

MainDict == [c \in Classes |->
                CASE c = "A" -> <<Item("b", TRUE), Item("a", TRUE)>>
                  [] c = "B" -> <<Item("a", TRUE)>>
                  [] c = "C" -> <<>>]

MainDesc(n) == [d \in Declared(MainDict) |->
                   CASE d = <<"B", "a">> -> ADescs[n]
                     [] d = <<"A", "a">> -> ADescs[(n % Len(ADescs)) + 1]
                     [] d = <<"A", "b">> -> BDesc]

Init ==
    /\ \E n \in DOMAIN ADescs, meta \in MetaChoices :
          prog = [dict |-> MainDict,
                  desc |-> MainDesc(n),
                  meta |-> [c \in Classes |-> IF c = "A" THEN meta ELSE NoMeta]]
    /\ attr_name = [d \in DOMAIN prog.desc |-> NoName]
    /\ insts = [i \in Instances |-> NoInstance]
    /\ compiled = [c \in InstClasses |-> to_json_schema(c)]
    /\ last = NoOp

Next ==
    \/ \E i \in Instances, c \in InstClasses, kwargs \in Dicts : Construct(i, c, kwargs)
    \/ \E i \in Instances, key \in Keys, value \in Values : SetAttr(i, key, value)
    \/ \E i \in Instances, name \in Keys, value \in Values : SetItem(i, name, value)
    \/ \E i \in Instances : Serialize(i)
    \/ \E i \in Instances, raise_exception \in BOOLEAN : Validate(i, raise_exception)
    \/ \E i \in Instances, c \in InstClasses, data \in Dicts : FromJson(i, c, data)
    \/ \E i \in Instances : RoundTrip(i)
    \/ \E c \in InstClasses : Compile(c)

Spec == Init /\ [][Next]_vars

(***************************************************************************)
(* Specification of the field map alone: any three-class chain whose       *)
(* classes declare up to MaxDecl attributes each, some of them not Fields. *)
(***************************************************************************)
ResolveItems == {Item(a, TRUE) : a \in AttrNames} \cup {Item("a", FALSE)}

DictChoices ==
    {d \in UNION {[1..n -> ResolveItems] : n \in 0..MaxDecl} :
        \A m, n \in DOMAIN d : m # n => d[m].attr # d[n].attr}

InitResolve ==
    /\ \E dict \in [Classes -> DictChoices] :
          prog = [dict |-> dict,
                  desc |-> [d \in Declared(dict) |-> PlainDesc],
                  meta |-> [c \in Classes |-> NoMeta]]
    /\ attr_name = [d \in DOMAIN prog.desc |-> NoName]
    /\ insts = <<>>
    /\ compiled = <<>>
    /\ last = NoOp

\* Schema.Instance._set_fields_map: dict(self.schema._get_allowed_fields_values())
ResolveFieldMap(c) ==
    /\ last' = Op("field_map", NoInst, c, "-", "returned", Empty, {},
                  _get_allowed_fields_values(c))
    /\ UNCHANGED <<prog, attr_name, insts, compiled>>

NextResolve == \E c \in Classes : ResolveFieldMap(c)

SpecResolve == InitResolve /\ [][NextResolve]_vars

(***************************************************************************)
(* Specification of compilation alone: the classes of the main             *)
(* specification with every combination of kind, required flag and         *)
(* external name on the three descriptors, dependencies that name renamed  *)
(* and undeclared attributes, and a Meta of its own on B.                  *)
(***************************************************************************)
ExtName(x) == IF x = "a" THEN "x-a" ELSE "x-b"

CompileDescs(x) ==
    {Desc(k, r, nm, None) : k \in {"integer", "format"}, r \in BOOLEAN,
                            nm \in {NoName, ExtName(x)}}

CompileDeps == {<<>>,
                <<RequiredDependency("a", <<"b">>)>>,
                <<RequiredDependency("b", <<"a">>)>>,
                <<RequiredDependency("a", <<"c">>)>>,
                <<RequiredDependency("c", <<"a">>)>>,
                <<RequiredDependency("a", <<"b">>), RequiredDependency("b", <<"a">>)>>}

InitCompile ==
    /\ \E da \in CompileDescs("a"), db \in CompileDescs("b"), dba \in CompileDescs("a"),
          ap \in BOOLEAN, deps \in CompileDeps, mb \in {NoMeta, Meta(TRUE, <<>>)} :
          prog = [dict |-> MainDict,
                  desc |-> [d \in Declared(MainDict) |->
                               CASE d = <<"A", "a">> -> da
                                 [] d = <<"A", "b">> -> db
                                 [] d = <<"B", "a">> -> dba],
                  meta |-> [c \in Classes |->
                               CASE c = "A" -> Meta(ap, deps)
                                 [] c = "B" -> mb
                                 [] c = "C" -> NoMeta]]
    /\ attr_name = [d \in DOMAIN prog.desc |-> NoName]
    /\ insts = <<>>
    /\ compiled = <<>>
    /\ last = NoOp

NextCompile == \E c \in Classes : Compile(c)

SpecCompile == InitCompile /\ [][NextCompile]_vars

(***************************************************************************)
(* C1.  The resolved field map of a class holds exactly one entry per      *)
(* attribute name declared as a Field anywhere in its MRO, and that entry  *)
(* is the descriptor of the most-derived class declaring it: for B         *)
(* inheriting A and redeclaring x, B's descriptor and never A's.           *)
(***************************************************************************)
DeclaresField(cls, x) == \E it \in Range(prog.dict[cls]) : it.attr = x /\ it.is_field

Declarers(c, x) == {n \in DOMAIN Mro(c) : DeclaresField(Mro(c)[n], x)}

MostDerived(c, x) ==
    Mro(c)[CHOOSE n \in Declarers(c, x) : \A m \in Declarers(c, x) : n <= m]

C1_FieldMapOverride ==
    last.op = "field_map" =>
        \A x \in AttrNames :
            LET entries == {n \in DOMAIN last.fmap : last.fmap[n][1] = x} IN
            IF Declarers(last.c, x) = {}
            THEN entries = {}
            ELSE /\ Cardinality(entries) = 1
                 /\ \A n \in entries : last.fmap[n][2] = <<MostDerived(last.c, x), x>>

C1_Witness ==
    /\ last.op = "field_map"
    /\ last.c = "B"
    /\ DeclaresField("A", "a")
    /\ DeclaresField("B", "a")
    /\ \E n \in DOMAIN last.fmap : last.fmap[n] = <<"a", <<"B", "a">>>>

(***************************************************************************)
(* Helpers of the claims: the field map of the class of the last           *)
(* operation, and the key a field is written under.                        *)
(***************************************************************************)
LastFields == _get_allowed_fields_values(last.c)
LastAttrs == insts[last.i].attrs
AttrOf(e) == e[1]
ObjOf(e) == prog.desc[e[2]]
Renamed(e) == ObjOf(e).name # NoName
KeyOf(e) == IF Renamed(e) THEN ObjOf(e).name ELSE AttrOf(e)
FieldAttrs(c) == {AttrOf(e) : e \in Range(_get_allowed_fields_values(c))}

(***************************************************************************)
(* C2.  Compile purity: to_json_schema() of a class, called after any      *)
(* sequence of construct, from_json, serialize, validate and assignment    *)
(* operations, returns the document it returned right after the class was  *)
(* declared.                                                               *)
(***************************************************************************)
C2_CompilePurity ==
    last.op = "to_json_schema" => last.doc = compiled[last.c]

C2_Witness ==
    /\ last.op = "to_json_schema"
    /\ \E i \in Instances : Exists(i) /\ DOMAIN insts[i].attrs # {}
    /\ \E d \in DOMAIN attr_name : attr_name[d] # NoName

(***************************************************************************)
(* C3.  Object compilation: every field of the resolved field map has a    *)
(* key under "properties", its external name if it has one and its         *)
(* attribute name otherwise; the key is in "required" exactly when the     *)
(* field is required; "properties" and "required" hold no other key.       *)
(***************************************************************************)
C3_ObjectCompilation ==
    last.op = "to_json_schema" =>
        /\ \A e \in Range(LastFields) :
              /\ Renamed(e) => ObjOf(e).name \in DOMAIN last.doc.properties
              /\ ~Renamed(e) => AttrOf(e) \in DOMAIN last.doc.properties
              /\ InSeq(KeyOf(e), last.doc.required) <=> ObjOf(e).required
        /\ \A k \in DOMAIN last.doc.properties \cup Range(last.doc.required) :
              \E e \in Range(LastFields) : k = KeyOf(e)

C3_Witness ==
    /\ last.op = "to_json_schema"
    /\ \E e \in Range(LastFields) :
          Renamed(e) /\ ObjOf(e).required /\ InSeq(ObjOf(e).name, last.doc.required)
    /\ \E e \in Range(LastFields) :
          ~Renamed(e) /\ ~ObjOf(e).required /\ AttrOf(e) \in DOMAIN last.doc.properties

(***************************************************************************)
(* C4.  Dependency compilation: every Field Dependency of the class (the   *)
(* class having only dependencies between its fields) is an entry of       *)
(* "dependencies" whose source key and targets are the external names of   *)
(* the fields it names (the attribute name where the field has no          *)
(* external name).                                                         *)
(***************************************************************************)
NamesUnknownAttribute(c) ==
    \E d \in Range(field_dependencies(c)) :
        ({d.source} \cup Range(d.targets)) \ FieldAttrs(c) # {}

ExternalNameOf(c, x) ==
    IF \E e \in Range(_get_allowed_fields_values(c)) : AttrOf(e) = x /\ Renamed(e)
    THEN ObjOf(CHOOSE e \in Range(_get_allowed_fields_values(c)) : AttrOf(e) = x).name
    ELSE x

C4_DependenciesUseExternalNames ==
    (last.op = "to_json_schema" /\ ~NamesUnknownAttribute(last.c)) =>
        \A d \in Range(field_dependencies(last.c)) :
            /\ ExternalNameOf(last.c, d.source) \in DOMAIN last.doc.dependencies
            /\ last.doc.dependencies[ExternalNameOf(last.c, d.source)]
                  = [n \in DOMAIN d.targets |-> ExternalNameOf(last.c, d.targets[n])]

(***************************************************************************)
(* C5.  A class with a Field Dependency that names an attribute absent     *)
(* from its field map does not compile: to_json_schema() fails with a      *)
(* DependencyReferenceError and returns no document.                       *)
(***************************************************************************)
C5_UnknownDependencyFails ==
    (last.op = "to_json_schema" /\ NamesUnknownAttribute(last.c)) =>
        (last.outcome = "DependencyReferenceError" /\ last.doc = NoDoc)

(***************************************************************************)
(* C6.  Construction key lookup: a field takes its value from kwargs under *)
(* its external name when that key is present and otherwise under its      *)
(* attribute name, so that reading the field of the new instance gives     *)
(* the value passed under the external name.                               *)
(***************************************************************************)
C6_ExternalNameFirst ==
    last.op = "construct" =>
        \A e \in Range(LastFields) :
            /\ (Renamed(e) /\ ObjOf(e).name \in DOMAIN last.kw)
                  => GetAttr(last.i, AttrOf(e)) = last.kw[ObjOf(e).name]
            /\ (AttrOf(e) \in DOMAIN last.kw /\ KeyOf(e) \notin DOMAIN last.kw)
                  => GetAttr(last.i, AttrOf(e)) = last.kw[AttrOf(e)]

(***************************************************************************)
(* C7.  Missing fields, in construct and in from_json alike: a field       *)
(* absent from the input holds its default if it declares one and is left  *)
(* unset otherwise, and neither operation raises because a field is        *)
(* missing.                                                                *)
(***************************************************************************)
AbsentFromInput(e) ==
    /\ KeyOf(e) \notin DOMAIN last.kw
    /\ last.op = "construct" => AttrOf(e) \notin DOMAIN last.kw

C7_MissingFields ==
    /\ (last.op \in {"construct", "from_json"} /\ last.outcome = "returned") =>
          \A e \in Range(LastFields) :
              AbsentFromInput(e) =>
                  IF ObjOf(e).use_default # None
                  THEN /\ KeyOf(e) \in DOMAIN LastAttrs
                       /\ Unbox(LastAttrs[KeyOf(e)]) = ObjOf(e).use_default
                  ELSE KeyOf(e) \notin DOMAIN LastAttrs
    /\ (last.op = "from_json" /\ last.outcome = "ValidationError") =>
          \E err \in last.errs : err.kind # "required"

(***************************************************************************)
(* C8.  Construction of a class that permits additional properties: the    *)
(* declared fields are handled as in a closed class (a supplied value or   *)
(* the default is stored under the field's key) and every leftover kwarg   *)
(* is set under its own key, so that no supplied kwarg is lost.            *)
(***************************************************************************)
C8_OpenConstruct ==
    (last.op = "construct" /\ additional_properties(last.c)) =>
        /\ \A e \in Range(LastFields) :
              /\ AttrOf(e) \in DOMAIN last.kw =>
                    /\ KeyOf(e) \in DOMAIN LastAttrs
                    /\ LastAttrs[KeyOf(e)] = last.kw[AttrOf(e)]
              /\ (AttrOf(e) \notin DOMAIN last.kw /\ KeyOf(e) \notin DOMAIN last.kw
                    /\ ObjOf(e).use_default # None) =>
                    /\ KeyOf(e) \in DOMAIN LastAttrs
                    /\ LastAttrs[KeyOf(e)] = ObjOf(e).use_default
        /\ \A k \in DOMAIN last.kw \ FieldAttrs(last.c) :
              (\A e \in Range(LastFields) : KeyOf(e) # k) =>
                  (k \in DOMAIN LastAttrs /\ LastAttrs[k] = last.kw[k])

(***************************************************************************)
(* C9.  Round-trip law: for an instance just built by construct whose      *)
(* serialized form has no validation error, from_json of the serialized    *)
(* form returns an instance whose serialize() equals that form.            *)
(***************************************************************************)
C9_RoundTrip ==
    (last.op = "round_trip" /\ last.mode = "construct" /\ last.errs = {}) =>
        /\ last.outcome = "returned"
        /\ serialize(LastAttrs) = last.kw

(***************************************************************************)
(* C10.  validate: raise mode raises exactly when the serialized instance  *)
(* violates the compiled document and returns, reporting no error, when it *)
(* conforms; collect mode never raises and returns the violations, none    *)
(* exactly when raise mode would not raise.                                *)
(***************************************************************************)
C10_ValidateOutcome ==
    last.op = "validate" =>
        /\ last.mode = "raise" =>
              IF iter_errors(last.kw, to_json_schema(last.c), FALSE) # {}
              THEN last.outcome = "ValidationError"
              ELSE last.outcome \in {"returned", "None"} /\ last.errs = {}
        /\ last.mode = "collect" =>
              /\ last.outcome = "returned"
              /\ last.errs = {} <=> ~ValidateRaises(last.kw, last.c, FALSE)

(***************************************************************************)
(* Specification of the two validation entry points of a schema, called    *)
(* on a document with check_formats given: the programs of the main        *)
(* specification, every document of at most MaxKwargs keys.                *)
(***************************************************************************)
\* T().validate(data, check_formats=cf): Field.validate
SchemaValidate(c, data, cf) ==
    /\ last' = [Op("schema_validate", NoInst, c, "raise",
                    IF ValidateRaises(data, c, cf) THEN "ValidationError" ELSE "None",
                    data, {}, <<>>) EXCEPT !.check_formats = cf]
    /\ UNCHANGED <<prog, attr_name, insts, compiled>>

\* list(T().validation_errors(data, check_formats=cf)): Field.validation_errors
SchemaValidationErrors(c, data, cf) ==
    /\ last' = [Op("schema_validation_errors", NoInst, c, "collect", "returned",
                    data, validation_errors(data, c, cf), <<>>) EXCEPT !.check_formats = cf]
    /\ UNCHANGED <<prog, attr_name, insts, compiled>>

NextValidate ==
    \/ \E c \in InstClasses, data \in Dicts, cf \in BOOLEAN : SchemaValidate(c, data, cf)
    \/ \E c \in InstClasses, data \in Dicts, cf \in BOOLEAN :
          SchemaValidationErrors(c, data, cf)

SpecValidate == Init /\ [][NextValidate]_vars

(***************************************************************************)
(* Specification of combinators: class E declares s, an AnyOf, OneOf or    *)
(* AllOf over the classes A and B of the main specification and Integer(); *)
(* s.from_json is called on raw values, instances of E are filled by       *)
(* deserialize and validated.  Combinators are also declared, with other   *)
(* combinators among their alternatives.                                   *)
(***************************************************************************)
\* i = E.instance(); i.deserialize(data): [raised, attrs, an]
instance_deserialize(c, data, an) ==
    LET inst == NewInstance(c, an, Empty) IN
    deserialize(_get_allowed_fields_values(c),
                [attrs |-> inst.attrs, raised |-> FALSE, an |-> inst.an], data)

\* Of.__init__: the assertion in the loop tests the list _types, which is
\* never an Of, so every alternative is accepted
Of__init__(operator, types) ==
    [raised |-> "-", obj |-> OfDesc(operator, types, TRUE, NoName)]

\* Not.__init__: its first statement calls the undefined name
\* isinstaissubclass
Not__init__(type) == [raised |-> "NameError", obj |-> None]

CombKeys == {"a", "x-a"}
CombDicts == {m \in Dicts : DOMAIN m \subseteq CombKeys}
RawValues == CombDicts \cup Values
EDocs == {Empty} \cup {Put(Empty, "s", v) : v \in RawValues}

TypeLists == {<<SchemaType("A"), SchemaType("B")>>,
              <<SchemaType("B"), SchemaType("A")>>,
              <<PlainDesc, SchemaType("B")>>}

DeclTypes == {SchemaType("A"), PlainDesc, OfDesc("anyOf", <<PlainDesc>>, TRUE, NoName)}

\* E.s.from_json(data)
OfFromJson(data) ==
    \E r \in {Of_from_json(prog.desc[<<"E", "s">>], data, attr_name)} :
    /\ attr_name' = r.an
    /\ last' = [Op("of_from_json", NoInst, "E", "-",
                    IF r.raised THEN "ValidationError" ELSE "returned", data, {}, <<>>)
                    EXCEPT !.ret = IF r.raised THEN None ELSE r.value]
    /\ UNCHANGED <<prog, insts, compiled>>

\* i = E.instance(); i.deserialize(data)
Deserialize(i, c, data) ==
    \E r \in {instance_deserialize(c, data, attr_name)} :
    /\ insts' = IF r.raised THEN insts
                ELSE [insts EXCEPT ![i] = [cls |-> c, attrs |-> r.attrs]]
    /\ attr_name' = r.an
    /\ last' = Op("deserialize", i, c, "-", Outcome(r.raised), data, {}, <<>>)
    /\ UNCHANGED <<prog, compiled>>

\* AnyOf(*types), OneOf(*types), AllOf(*types); last.kw is the alternatives given
DeclareOf(operator, types) ==
    \E r \in {Of__init__(operator, types)} :
    /\ last' = [Op("declare", NoInst, NoClass, operator,
                    IF r.raised = "-" THEN "declared" ELSE r.raised, types, {}, <<>>)
                    EXCEPT !.ret = r.obj]
    /\ UNCHANGED <<prog, attr_name, insts, compiled>>

\* Not(type); last.kw is the alternative given
DeclareNot(type) ==
    \E r \in {Not__init__(type)} :
    /\ last' = [Op("declare", NoInst, NoClass, "not",
                    IF r.raised = "-" THEN "declared" ELSE r.raised, type, {}, <<>>)
                    EXCEPT !.ret = r.obj]
    /\ UNCHANGED <<prog, attr_name, insts, compiled>>

InitCombinator ==
    /\ \E n \in DOMAIN ADescs, ap \in BOOLEAN, operator \in Operators, types \in TypeLists :
          prog = [dict |-> [c \in Classes \cup {"E"} |->
                              IF c = "E" THEN <<Item("s", TRUE)>> ELSE MainDict[c]],
                  desc |-> (<<"E", "s">> :> OfDesc(operator, types, TRUE, NoName))
                              @@ MainDesc(n),
                  meta |-> [c \in Classes \cup {"E"} |->
                              IF c = "A" THEN Meta(ap, <<>>) ELSE NoMeta]]
    /\ attr_name = [d \in DOMAIN prog.desc |-> NoName]
    /\ insts = [i \in Instances |-> NoInstance]
    /\ compiled = <<>>
    /\ last = NoOp

NextCombinator ==
    \/ \E data \in RawValues : OfFromJson(data)
    \/ \E i \in Instances, data \in EDocs : Deserialize(i, "E", data)
    \/ \E i \in Instances, raise_exception \in BOOLEAN : Validate(i, raise_exception)
    \/ \E operator \in Operators, t1, t2 \in DeclTypes : DeclareOf(operator, <<t1, t2>>)
    \/ \E type \in DeclTypes : DeclareNot(type)

SpecCombinator == InitCombinator /\ [][NextCombinator]_vars

(***************************************************************************)
(* C11.  Format checking is toggled by check_formats in the same sense in  *)
(* both entry points: validate raises on, and validation_errors reports,   *)
(* the violations found with format assertions enforced exactly when       *)
(* check_formats is true; with check_formats false a value that violates   *)
(* only a format assertion produces no error in either mode.               *)
(***************************************************************************)
C11_CheckFormatsToggle ==
    /\ last.op = "schema_validate" =>
          (last.outcome = "ValidationError"
              <=> iter_errors(last.kw, to_json_schema(last.c), last.check_formats) # {})
    /\ last.op = "schema_validation_errors" =>
          last.errs = iter_errors(last.kw, to_json_schema(last.c), last.check_formats)

(***************************************************************************)
(* Helpers of the combinator claims: the combinator s of E and the         *)
(* alternatives whose document a raw value validates against.              *)
(***************************************************************************)
LastOf == prog.desc[<<"E", "s">>]
ValidBranches(obj, data) ==
    {n \in DOMAIN obj.types :
        PropertyErrors("-", data, FieldToJsonSchema(obj.types[n]), FALSE) = {}}
Lowest(S) == CHOOSE n \in S : \A m \in S : n <= m
IsSchemaInstance(val) == "cls" \in DOMAIN val
DecodedBy(t, data, ret) ==
    IF t.kind = "object"
    THEN /\ IsSchemaInstance(ret)
         /\ ret.cls = t.cls
         /\ ret.attrs = from_json(t.cls, data, attr_name).attrs
    ELSE ret = data

(***************************************************************************)
(* C12.  Combinator branch selection: from_json of a combinator decodes    *)
(* the raw value by the lowest-index alternative whose document validates  *)
(* it, also under OneOf when several alternatives validate; when exactly   *)
(* one validates, that one decodes, whatever the declaration order.        *)
(***************************************************************************)
C12_LowestValidBranchDecodes ==
    (last.op = "of_from_json" /\ ValidBranches(LastOf, last.kw) # {}) =>
        /\ last.outcome = "returned"
        /\ DecodedBy(LastOf.types[Lowest(ValidBranches(LastOf, last.kw))], last.kw, last.ret)

C12_Witness ==
    /\ last.op = "of_from_json"
    /\ LastOf.kind = "oneOf"
    /\ ValidBranches(LastOf, last.kw) = {1, 2}
    /\ IsSchemaInstance(last.ret)
    /\ last.ret.cls = LastOf.types[1].cls

(***************************************************************************)
(* C13.  Unresolved combinator: when no alternative validates the raw      *)
(* value, from_json of the combinator does not raise and returns the raw   *)
(* value unchanged, deserialize of the enclosing instance stores it, and   *)
(* a later validate of that instance raises (raise mode) or reports the    *)
(* combinator's violation (collect mode).                                  *)
(***************************************************************************)
Unresolved(val) == ~IsSchemaInstance(val) /\ ValidBranches(LastOf, val) = {}

C13_UnresolvedReturnsRaw ==
    /\ (last.op = "of_from_json" /\ Unresolved(last.kw)) =>
          (last.outcome = "returned" /\ last.ret = last.kw)
    /\ (last.op = "deserialize" /\ "s" \in DOMAIN last.kw /\ Unresolved(last.kw["s"])) =>
          /\ last.outcome = "returned"
          /\ "s" \in DOMAIN LastAttrs
          /\ LastAttrs["s"] = last.kw["s"]
    /\ (last.op = "validate" /\ LastOf.kind \in {"anyOf", "oneOf"}
            /\ "s" \in DOMAIN LastAttrs /\ Unresolved(LastAttrs["s"])) =>
          IF last.mode = "raise"
          THEN last.outcome = "ValidationError"
          ELSE Error(LastOf.kind, "s", "-") \in last.errs

C13_Witness ==
    /\ last.op = "validate"
    /\ last.mode = "collect"
    /\ LastOf.kind = "anyOf"
    /\ "s" \in DOMAIN LastAttrs
    /\ Unresolved(LastAttrs["s"])
    /\ IsJsonObject(LastAttrs["s"])
    /\ Error("anyOf", "s", "-") \in last.errs

(***************************************************************************)
(* Specification of a dependency between two fields: A declares b          *)
(* (optional, no default) and a, with Meta.field_dependencies a -> [b];    *)
(* B inherits A and redeclares a, with or without an external name.        *)
(* Instances of B are constructed and validated.                           *)
(***************************************************************************)
DepADescs == {Desc("integer", TRUE, NoName, None),
              Desc("integer", TRUE, "x-a", None),
              Desc("format", FALSE, NoName, None),
              Desc("format", TRUE, "x-a", None)}

DepBDesc == Desc("integer", FALSE, NoName, None)

InitDependency ==
    /\ \E da \in DepADescs, ap \in BOOLEAN :
          prog = [dict |-> MainDict,
                  desc |-> [d \in Declared(MainDict) |->
                               CASE d = <<"B", "a">> -> da
                                 [] d = <<"A", "a">> -> PlainDesc
                                 [] d = <<"A", "b">> -> DepBDesc],
                  meta |-> [c \in Classes |->
                               IF c = "A"
                               THEN Meta(ap, <<RequiredDependency("a", <<"b">>)>>)
                               ELSE NoMeta]]
    /\ attr_name = [d \in DOMAIN prog.desc |-> NoName]
    /\ insts = [i \in Instances |-> NoInstance]
    /\ compiled = <<>>
    /\ last = NoOp

NextDependency ==
    \/ \E i \in Instances, kwargs \in Dicts : Construct(i, "B", kwargs)
    \/ \E i \in Instances, raise_exception \in BOOLEAN : Validate(i, raise_exception)

SpecDependency == InitDependency /\ [][NextDependency]_vars

(***************************************************************************)
(* C14.  Dependency detection, for a class with the dependency a -> [b]:   *)
(* an instance that holds a value for a and none for b, all else valid,    *)
(* has exactly one collected validation error, which names b as a          *)
(* dependency of a; an instance with no value for a has no dependency      *)
(* error.                                                                  *)
(***************************************************************************)
Supplied(x) == GetAttr(last.i, x) # AttributeError

C14_DependencyDetection ==
    (last.op = "validate" /\ last.mode = "collect") =>
        /\ (/\ Supplied("a")
            /\ ~Supplied("b")
            /\ \A e \in last.errs : e.kind = "dependency")
              => \E t, src \in Keys : last.errs = {Error("dependency", t, src)}
        /\ ~Supplied("a") => \A e \in last.errs : e.kind # "dependency"

(***************************************************************************)
(* Specification of lists: class E declares s, a List or GenericList of    *)
(* up to MaxTypes item types (Integer() or Format("email")); s compiles,   *)
(* validates and deserializes list values of up to MaxItems elements.      *)
(***************************************************************************)
ItemTypes == {PlainDesc, Desc("format", TRUE, NoName, None)}
SeqsUpTo(S, n) == UNION {[1..m -> S] : m \in 0..n}
ListValues == {ListV(q) : q \in SeqsUpTo(Values, MaxItems)}
\* the descriptor s of class E
LastList == prog.desc[<<"E", "s">>]

\* E.s.from_json(data)
ListFromJson(data) ==
    \E r \in {List_from_json(LastList, data, attr_name)} :
    /\ attr_name' = r.an
    /\ last' = [Op("list_from_json", NoInst, "E", "-", Outcome(r.raised), data, {}, <<>>)
                    EXCEPT !.ret = IF r.raised THEN None ELSE r.value]
    /\ UNCHANGED <<prog, insts, compiled>>

\* E.s.validate(data): Field.validate
ListValidate(data) ==
    /\ last' = Op("list_validate", NoInst, "E", "raise",
                   IF PropertyErrors("-", data, FieldToJsonSchema(LastList), FALSE) # {}
                   THEN "ValidationError" ELSE "None", data, {}, <<>>)
    /\ UNCHANGED <<prog, attr_name, insts, compiled>>

\* E.s.to_json_schema()
ListCompile ==
    /\ last' = [Op("list_to_json_schema", NoInst, "E", "-", "returned", Empty, {}, <<>>)
                    EXCEPT !.doc = FieldToJsonSchema(LastList)]
    /\ UNCHANGED <<prog, attr_name, insts, compiled>>

InitList ==
    /\ \E types \in SeqsUpTo(ItemTypes, MaxTypes), generic \in BOOLEAN :
          prog = [dict |-> [c \in Classes \cup {"E"} |->
                              IF c = "E" THEN <<Item("s", TRUE)>> ELSE <<>>],
                  desc |-> (<<"E", "s">> :> ListDesc(types, generic, NoName)),
                  meta |-> [c \in Classes \cup {"E"} |-> NoMeta]]
    /\ attr_name = [d \in DOMAIN prog.desc |-> NoName]
    /\ insts = <<>>
    /\ compiled = <<>>
    /\ last = NoOp

NextList ==
    \/ \E data \in ListValues : ListFromJson(data)
    \/ \E data \in ListValues : ListValidate(data)
    \/ ListCompile

SpecList == InitList /\ [][NextList]_vars

(***************************************************************************)
(* C15.  Positional list deserialization: from_json of a list declared     *)
(* with k >= 2 item types, on data of n > k elements, returns a list       *)
(* instance of n elements, element m decoded by declared type m mod k.     *)
(***************************************************************************)
Cycled(types, m) == types[((m - 1) % Len(types)) + 1]

C15_PositionalTypesCycle ==
    (last.op = "list_from_json" /\ last.outcome = "returned"
        /\ Len(LastList.types) >= 2 /\ Len(last.kw.list) > Len(LastList.types)) =>
        /\ Len(last.ret._list) = Len(last.kw.list)
        /\ \A m \in DOMAIN last.ret._list :
              last.ret._list[m]
                  = FieldFromJson(Cycled(LastList.types, m), last.kw.list[m], attr_name).value

(***************************************************************************)
(* C16.  Positional list compilation: a list declared with k >= 2 item     *)
(* types compiles to "items" holding the k item documents in index order,  *)
(* and a value of more than k elements fails validation unless the list    *)
(* type accepts additional items (GenericList).                            *)
(***************************************************************************)
C16_PositionalItems ==
    /\ (last.op = "list_to_json_schema" /\ Len(LastList.types) >= 2) =>
          /\ last.doc.items.form = "array"
          /\ last.doc.items.docs
                = [n \in DOMAIN LastList.types |-> FieldToJsonSchema(LastList.types[n])]
    /\ (last.op = "list_validate" /\ Len(LastList.types) >= 2
            /\ Len(last.kw.list) > Len(LastList.types) /\ ~LastList.generic) =>
          last.outcome = "ValidationError"

(***************************************************************************)
(* C17.  Renamed-field access: after construction and after any attribute  *)
(* or item assignment, reading a field that has an external name by its    *)
(* attribute name and by its external name gives the same value, and       *)
(* serialize() holds the value under the external name only.  Stated for   *)
(* the classes that permit no additional properties.                       *)
(***************************************************************************)
C17_RenamedFieldAccess ==
    (last.op \in {"construct", "setattr", "setitem"} /\ ~additional_properties(last.c)) =>
        \A e \in Range(LastFields) :
            Renamed(e) =>
                /\ GetAttr(last.i, AttrOf(e)) = GetAttr(last.i, ObjOf(e).name)
                /\ AttrOf(e) \notin DOMAIN serialize(LastAttrs)

(***************************************************************************)
(* C18.  Construction, deserialization, serialization and validation       *)
(* leave every field descriptor as it was when its class was defined: no   *)
(* descriptor gains or changes an attribute.                               *)
(***************************************************************************)
C18_DescriptorsNeverChange ==
    last.op \in {"construct", "from_json", "round_trip", "serialize", "validate"} =>
        \A d \in DOMAIN attr_name : attr_name[d] = NoName

(***************************************************************************)
(* Specification of primitive bounds: s is a Number, an Integer or a       *)
(* String declared with any combination of bounds, each absent, negative   *)
(* or positive, and is compiled.                                           *)
(***************************************************************************)
BoundValues == {None, IntV(-1), IntV(1)}

BoundDescs ==
    {NumberDesc(k, mn, mx, emn, emx, mo) :
        k \in {"number", "integer"}, mn \in BoundValues, mx \in BoundValues,
        emn \in BoundValues, emx \in BoundValues, mo \in BoundValues}
    \cup {StringDesc(mn, mx, pt, bl) :
        mn \in BoundValues, mx \in BoundValues, pt \in {None, BadEmail}, bl \in BOOLEAN}

FieldRaises(obj) == IF obj.kind = "string" THEN String_raises(obj) ELSE Number_raises(obj)

\* s.to_json_schema()
FieldCompile ==
    /\ last' = [Op("field_to_json_schema", NoInst, "E", "-",
                    IF FieldRaises(LastList) = "-" THEN "returned" ELSE FieldRaises(LastList),
                    Empty, {}, <<>>)
                    EXCEPT !.doc = IF FieldRaises(LastList) = "-"
                                   THEN FieldToJsonSchema(LastList) ELSE NoDoc]
    /\ UNCHANGED <<prog, attr_name, insts, compiled>>

InitBounds ==
    /\ \E obj \in BoundDescs :
          prog = [dict |-> [c \in Classes \cup {"E"} |->
                              IF c = "E" THEN <<Item("s", TRUE)>> ELSE <<>>],
                  desc |-> (<<"E", "s">> :> obj),
                  meta |-> [c \in Classes \cup {"E"} |-> NoMeta]]
    /\ attr_name = [d \in DOMAIN prog.desc |-> NoName]
    /\ insts = <<>>
    /\ compiled = <<>>
    /\ last = NoOp

NextBounds == FieldCompile

SpecBounds == InitBounds /\ [][NextBounds]_vars

(***************************************************************************)
(* C20.  Primitive bound emission: compiling a numeric or string           *)
(* descriptor with a negative bound is rejected; otherwise the document    *)
(* holds every declared bound under its standard keyword (min -> minimum,  *)
(* max -> maximum, exclusive_min -> exclusiveMinimum, exclusive_max ->     *)
(* exclusiveMaximum, multiple_of -> multipleOf, min_len -> minLength,      *)
(* max_len -> maxLength, pattern -> pattern), also when an inclusive and   *)
(* an exclusive bound of the same side are both declared.                  *)
(***************************************************************************)
BoundKeywords ==
    {<<"min", "minimum">>, <<"max", "maximum">>,
     <<"exclusive_min", "exclusiveMinimum">>, <<"exclusive_max", "exclusiveMaximum">>,
     <<"multiple_of", "multipleOf">>, <<"min_len", "minLength">>,
     <<"max_len", "maxLength">>, <<"pattern", "pattern">>}

C20_BoundEmission ==
    last.op = "field_to_json_schema" =>
        IF \E b \in BoundKeywords :
              /\ b[1] # "pattern"
              /\ Attr(LastList, b[1]) # None
              /\ Attr(LastList, b[1]).v < 0
        THEN last.outcome # "returned"
        ELSE /\ last.outcome = "returned"
             /\ \A b \in BoundKeywords :
                   Attr(LastList, b[1]) # None =>
                       /\ b[2] \in DOMAIN last.doc
                       /\ last.doc[b[2]] = Attr(LastList, b[1])

(***************************************************************************)
(* C19.  Combinators never nest: a declaration of AnyOf, OneOf or AllOf    *)
(* with a combinator among its alternatives, or of Not around a            *)
(* combinator, is rejected.                                                *)
(***************************************************************************)
C19_NoNestedCombinator ==
    last.op = "declare" =>
        IF last.mode = "not"
        THEN IsOf(last.kw) => last.outcome # "declared"
        ELSE (\E n \in DOMAIN last.kw : IsOf(last.kw[n])) => last.outcome # "declared"

(***************************************************************************)
(* Specification of the required flag: E declares s and t, each a          *)
(* descriptor of any kind built with or without the required keyword      *)
(* (prog.decl keeps the declaration as written), and is compiled.          *)
(***************************************************************************)
FieldKinds == {"integer", "number", "string", "const", "enum", "format",
               "array", "object"} \cup Operators

\* the required keyword of a declaration: absent, True or False
RequiredKwargs == {{}, {TRUE}, {FALSE}}

\* Kind(), every keyword at its default
DefaultDesc(kind) ==
    CASE kind = "array" -> ListDesc(<<PlainDesc>>, FALSE, NoName)
      [] kind = "string" -> StringDesc(None, None, None, FALSE)
      [] kind = "object" ->
            SchemaType("A") @@ [required |-> TRUE, name |-> NoName, use_default |-> None]
      [] kind \in Operators -> OfDesc(kind, <<PlainDesc>>, TRUE, NoName)
      [] kind = "const" -> Desc(kind, TRUE, NoName, None) @@ [_value |-> IntV(0)]
      [] kind = "enum" -> Desc(kind, TRUE, NoName, None) @@ [_value |-> ListV(<<IntV(0)>>)]
      [] OTHER -> Desc(kind, TRUE, NoName, None)

\* Kind(required=...) when the keyword is given, Kind() when it is not
DeclareField(kind, kw) ==
    IF kw = {} THEN DefaultDesc(kind)
    ELSE [DefaultDesc(kind) EXCEPT !.required = CHOOSE b \in kw : TRUE]

Declaration(kind, kw) == [kind |-> kind, required |-> kw]

InitRequired ==
    /\ \E ks \in FieldKinds, kt \in FieldKinds,
          ws \in RequiredKwargs, wt \in RequiredKwargs :
          prog = [dict |-> [c \in Classes \cup {"E"} |->
                              IF c = "E" THEN <<Item("s", TRUE), Item("t", TRUE)>>
                              ELSE <<>>],
                  desc |-> (<<"E", "s">> :> DeclareField(ks, ws))
                              @@ (<<"E", "t">> :> DeclareField(kt, wt)),
                  decl |-> (<<"E", "s">> :> Declaration(ks, ws))
                              @@ (<<"E", "t">> :> Declaration(kt, wt)),
                  meta |-> [c \in Classes \cup {"E"} |-> NoMeta]]
    /\ attr_name = [d \in DOMAIN prog.desc |-> NoName]
    /\ insts = <<>>
    /\ compiled = <<>>
    /\ last = NoOp

NextRequired == Compile("E")

SpecRequired == InitRequired /\ [][NextRequired]_vars

(***************************************************************************)
(* C21.  Default of the required flag: a descriptor of any kind declared   *)
(* without the required keyword has required = true, and the field is     *)
(* listed in the "required" list of the enclosing object's document.       *)
(***************************************************************************)
C21_RequiredDefault ==
    last.op = "to_json_schema" =>
        \A d \in DOMAIN prog.desc :
            prog.decl[d].required = {} =>
                /\ prog.desc[d].required = TRUE
                /\ InSeq(d[2], last.doc.required)

(***************************************************************************)
(* C22.  Item assignment frame: on an instance of a class that permits no  *)
(* additional properties, instance[name] = value for a declared field name *)
(* returns without raising, whatever the value, and changes at most the    *)
(* stored value of that field: every other stored attribute, in particular *)
(* a defaulted field given a non-default value earlier, is what it was     *)
(* before the assignment.                                                  *)
(***************************************************************************)
AssignedKey(c, name) ==
    KeyOf(CHOOSE e \in Range(_get_allowed_fields_values(c)) : AttrOf(e) = name)

C22_ItemAssignmentFrame ==
    [][(/\ last'.op = "setitem"
        /\ ~additional_properties(last'.c)
        /\ last'.mode \in FieldAttrs(last'.c)) =>
           /\ last'.outcome = "returned"
           /\ \A k \in (DOMAIN insts[last'.i].attrs \cup DOMAIN insts'[last'.i].attrs)
                        \ {AssignedKey(last'.c, last'.mode)} :
                 /\ k \in DOMAIN insts[last'.i].attrs
                 /\ k \in DOMAIN insts'[last'.i].attrs
                 /\ insts'[last'.i].attrs[k] = insts[last'.i].attrs[k]]_vars

=============================================================================
